---------------------------- MODULE Spec2Model ----------------------------
(***************************************************************************)
(* prisma-dm: the migrate orchestrator (src/src/services/CLI.ts, migrate,  *)
(* driven by the migrate command of src/src/cli.ts), the concurrent        *)
(* codegen tasks of generate and the schema rewrite updateGenerator        *)
(* (src/src/utils/tempMigrationSchema.ts), the run:postscript command and  *)
(* the datasource resolver readDataSourceConfig.                           *)
(*                                                                         *)
(* Migration names are modelled by their position in the sorted listing    *)
(* of the migrations directory: rawMigrations = <<1, ..., NumMigrations>>. *)
(* StrayName is a well-formed name with no directory, InvalidName one the  *)
(* naming validator rejects.                                               *)
(***************************************************************************)
EXTENDS Integers, Sequences, FiniteSets, TLC

\* ------------------------------------------------------------- bounds
NumMigrations == 3
MaxCount == 2
NumTasks == 2
NumSuffixes == 2
MaxDecls == 2

\* -------------------------------------------------------- JS helpers
Min(a, b) == IF a < b THEN a ELSE b
Max(a, b) == IF a > b THEN a ELSE b
Range(s) == {s[k] : k \in 1..Len(s)}

\* JS undefined for a migration name (names are 1, 2, ...).
Undefined == 0
\* A history lookup that found no row (getMigrationByName returned null).
NoRow == -1

\* Array.prototype.indexOf: zero-based, -1 when absent.
IndexOf(s, x) ==
  IF \E k \in 1..Len(s) : s[k] = x
  THEN (CHOOSE k \in 1..Len(s) : s[k] = x /\ \A j \in 1..(k - 1) : s[j] # x) - 1
  ELSE -1

\* Array.prototype.slice(0, end): a negative end counts from the back.
SliceTo(s, end) ==
  LET e == IF end < 0 THEN Max(Len(s) + end, 0) ELSE Min(end, Len(s))
  IN  SubSeq(s, 1, e)

\* Array.prototype.at(-1): undefined on an empty array.
AtLast(s) == IF Len(s) = 0 THEN Undefined ELSE s[Len(s)]

\* ------------------------------------------------- migrations directory
rawMigrations == [k \in 1..NumMigrations |-> k]
StrayName == NumMigrations + 1
InvalidName == NumMigrations + 2
Names == 1..InvalidName

\* Validator.validateMigrationName: the naming convention only.
IsValidMigrationName(n) == n # InvalidName

\* A command line option: not given, the word "latest", or a name.
OptAbsent == [given |-> FALSE, latest |-> FALSE, name |-> Undefined]
OptLatest == [given |-> TRUE, latest |-> TRUE, name |-> Undefined]
OptName(n) == [given |-> TRUE, latest |-> FALSE, name |-> n]
OptionValues == {OptAbsent, OptLatest} \cup {OptName(n) : n \in Names}

VARIABLES
  \* the migrate command
  pc, error, optTo, optUpto,
  withPostScript, idempotentEngine,
  tableExists, rows,
  targetMigration, includeTargetMigration, migrations, dataMigrations,
  idx, prismaTableExists, migrationAppliedCount, newMigrationAppliedCount,
  connected, engineLog, scriptLog, executed, histBefore, histAfter,
  \* the generate command
  exitOnUnhandled, withSchema, genPromise, alive, taskPc, taskError, suffix, disk,
  \* a call of updateGenerator, and a second one on its result
  callerAst, clientOutputPath, ugResult, againSource, ugAgain,
  \* a call of readDataSourceConfig
  hasDatasource, schemaProvider, schemaUrl, processEnv, prismaConfig, dsResult,
  \* the run:postscript command
  manualPc, manualOption, manualError, runnerCalls

vars == <<pc, error, optTo, optUpto, withPostScript, idempotentEngine,
          tableExists, rows, targetMigration, includeTargetMigration,
          migrations, dataMigrations, idx, prismaTableExists,
          migrationAppliedCount, newMigrationAppliedCount, connected,
          engineLog, scriptLog, executed, histBefore, histAfter,
          exitOnUnhandled, withSchema, genPromise, alive, taskPc, taskError,
          suffix, disk, callerAst, clientOutputPath, ugResult, againSource, ugAgain,
          hasDatasource, schemaProvider, schemaUrl, processEnv, prismaConfig, dsResult,
          manualPc, manualOption, manualError, runnerCalls>>

envVars == <<withPostScript, idempotentEngine>>
dbVars == <<tableExists, rows>>
optVars == <<optTo, optUpto>>
argVars == <<targetMigration, includeTargetMigration, migrations, dataMigrations>>
localVars == <<idx, prismaTableExists, migrationAppliedCount, newMigrationAppliedCount>>
logVars == <<engineLog, scriptLog, executed>>
ghostVars == <<histBefore, histAfter>>
migrateVars == <<pc, error, optVars, envVars, dbVars, argVars, localVars,
                 connected, logVars, ghostVars>>
generateVars == <<exitOnUnhandled, withSchema, genPromise, alive, taskPc,
                  taskError, suffix, disk>>
updateVars == <<callerAst, clientOutputPath, ugResult, againSource, ugAgain>>
resolveVars == <<hasDatasource, schemaProvider, schemaUrl, processEnv, prismaConfig, dsResult>>
manualVars == <<manualPc, manualOption, manualError, runnerCalls>>


\* ------------------------------------------------ history store, engine
\* The history store and the engine are TargetedPrismaMigrator and DB, which
\* CLI.ts only calls; they follow the interface the specification gives:
\* advanceTo(m) applies every pending migration up to and including m.
NoHistory == [k \in 1..NumMigrations |-> NoRow]

\* The histories a run may start from: a fresh database, or a table where the
\* first j migrations were applied earlier, each recorded with c steps.
InitialHistories ==
  {[table |-> FALSE, rows |-> NoHistory]} \cup
  {[table |-> TRUE,
    rows |-> [k \in 1..NumMigrations |-> IF k <= j THEN c ELSE NoRow]] :
      j \in 0..NumMigrations, c \in 0..MaxCount}

\* Every pending migration before m is recorded with one step, m with c.
ApplyPending(h, m, c) ==
  [k \in 1..NumMigrations |->
     IF k <= m /\ h[k] = NoRow THEN (IF k = m THEN c ELSE 1) ELSE h[k]]

\* The histories a successful advanceTo(m) may leave. An idempotent engine
\* leaves an applied migration's row alone; an inconsistent one (or a history
\* rewritten behind it) may leave any count in the row of m.
AdvanceOutcomes(h, m, idem) ==
  IF idem
  THEN {ApplyPending(h, m, c) : c \in 1..MaxCount}
  ELSE {[ApplyPending(h, m, 1) EXCEPT ![m] = c] : c \in 0..MaxCount}

\* A failing advanceTo(m) stops before some migration j <= m.
AdvanceFailures(h, m) ==
  {[k \in 1..NumMigrations |-> IF k < j /\ h[k] = NoRow THEN 1 ELSE h[k]] :
     j \in 1..m}

\* What the history holds for m: zero steps when the table does not exist or
\* holds no row for m.
RecordedSteps(table, h, m) == IF ~table \/ h[m] = NoRow THEN 0 ELSE h[m]

\* ------------------------------------------------------ CLI.migrate
\* Seeded fault: the loop body's errors are caught and logged, and the loop
\* goes on.
ThrowCaughtInLoop(kind) ==
  /\ pc' = (IF kind \in {"history", "engine", "script"} THEN "loop" ELSE "failed")
  /\ error' = kind

\* A thrown error leaves migrate (and the command) at once: nothing catches it.
Throw(kind) ==
  /\ pc' = "failed"
  /\ error' = kind

\* cli.ts: const toOption = options.to ?? options.upto
ToOption(to, upto) == IF to.given THEN to ELSE upto

\* cli.ts: toOption === "latest" ? undefined : toOption
TargetOf(to, upto) ==
  LET o == ToOption(to, upto)
  IN  IF o.given /\ ~o.latest THEN o.name ELSE Undefined

\* cli.ts: includeTargetMigration: !options.to
IncludeTargetOf(to) == ~to.given

LastMigrationIndex(target) ==
  IF target # Undefined THEN IndexOf(rawMigrations, target) ELSE Len(rawMigrations)

\* Seeded fault: the include flag is ignored.
MigrationsAlwaysInclusive(target, include) ==
  SliceTo(rawMigrations, LastMigrationIndex(target) + 1)

Migrations(target, include) ==
  SliceTo(rawMigrations, LastMigrationIndex(target) + (IF include THEN 1 ELSE 0))

\* Seeded fault: the post-script-bearing migrations are taken newest first.
DataMigrationsNewestFirst(slice, ps) ==
  LET data == SelectSeq(slice, LAMBDA m : m \in ps)
  IN  [k \in 1..Len(data) |-> data[Len(data) + 1 - k]]

\* migrations.filter((m) => this.validator.isMigrationWithPostScript(m))
DataMigrations(slice, ps) == SelectSeq(slice, LAMBDA m : m \in ps)

\* migration?.applied_steps_count ?? 0
StepsOf(row) == IF row = NoRow THEN 0 ELSE row

\* Seeded fault: the sample before the engine call is not taken.
AppliedCountBeforeDropped(exists, row) == 0

\* prismaTableExists ? (migration?.applied_steps_count ?? 0) : 0
AppliedCountBefore(exists, row) == IF exists THEN StepsOf(row) ELSE 0

\* Seeded fault: any increase of the count runs the post-script.
ShouldRunPostScriptOnAnyIncrease(before, after) == before < after

\* migrationAppliedCount + 1 === newMigrationAppliedCount
ShouldRunPostScript(before, after) == before + 1 = after

\* Seeded fault: the catch-up call is issued for every non-empty slice.
FinalCallAlways(data, slice) == Len(slice) > 0

\* dataMigrations.at(-1) !== migrations.at(-1)
FinalCallNeeded(data, slice) == AtLast(data) # AtLast(slice)

Current == dataMigrations[idx]

\* The migrate command's action and the synchronous head of CLI.migrate.
MigrateStart ==
  /\ pc = "idle"
  /\ \E to \in OptionValues, upto \in OptionValues :
       /\ optTo' = to
       /\ optUpto' = upto
       /\ IF to.given /\ upto.given
          THEN /\ Throw("options")
               /\ UNCHANGED argVars
          ELSE LET target == TargetOf(to, upto)
                   include == IncludeTargetOf(to)
               IN  IF target # Undefined /\ ~IsValidMigrationName(target)
                   THEN /\ Throw("InvalidMigrationName")
                        /\ UNCHANGED argVars
                   ELSE /\ targetMigration' = target
                        /\ includeTargetMigration' = include
                        /\ migrations' = Migrations(target, include)
                        /\ dataMigrations' =
                             DataMigrations(Migrations(target, include), withPostScript)
                        /\ pc' = "readDataSource"
                        /\ UNCHANGED error
  /\ UNCHANGED <<generateVars, updateVars, resolveVars, manualVars>>
  /\ UNCHANGED <<envVars, dbVars, localVars, connected, logVars, ghostVars>>

\* await readDataSourceConfig(this.config.mainPrismaSchema)
ReadDataSource ==
  /\ pc = "readDataSource"
  /\ \/ pc' = "connect" /\ UNCHANGED error
     \/ Throw("datasource")
  /\ UNCHANGED <<generateVars, updateVars, resolveVars, manualVars>>
  /\ UNCHANGED <<optVars, envVars, dbVars, argVars, localVars, connected,
                 logVars, ghostVars>>

\* await this.db.connect(dataSource, this.config)
Connect ==
  /\ pc = "connect"
  /\ \/ connected' = TRUE /\ pc' = "loop" /\ UNCHANGED error
     \/ Throw("connect") /\ UNCHANGED connected
  /\ UNCHANGED <<generateVars, updateVars, resolveVars, manualVars>>
  /\ UNCHANGED <<optVars, envVars, dbVars, argVars, localVars, logVars, ghostVars>>

\* for (const migrationName of dataMigrations)
LoopHead ==
  /\ pc = "loop"
  /\ IF idx < Len(dataMigrations)
     THEN /\ idx' = idx + 1
          /\ pc' = "tableExists"
     ELSE /\ pc' = "final"
          /\ UNCHANGED idx
  /\ prismaTableExists' = FALSE
  /\ migrationAppliedCount' = 0
  /\ newMigrationAppliedCount' = 0
  /\ histBefore' = 0
  /\ histAfter' = 0
  /\ UNCHANGED <<generateVars, updateVars, resolveVars, manualVars>>
  /\ UNCHANGED <<error, optVars, envVars, dbVars, argVars, connected, logVars>>

\* await this.db.isPrismaMigrationsTableExists()
CheckTable ==
  /\ pc = "tableExists"
  /\ \/ /\ prismaTableExists' = tableExists
        /\ IF tableExists
           THEN pc' = "readBefore" /\ UNCHANGED migrationAppliedCount
           ELSE /\ migrationAppliedCount' = AppliedCountBefore(FALSE, NoRow)
                /\ pc' = "migrateTo"
        /\ UNCHANGED error
     \/ /\ Throw("history")
        /\ UNCHANGED <<prismaTableExists, migrationAppliedCount>>
  /\ UNCHANGED <<generateVars, updateVars, resolveVars, manualVars>>
  /\ UNCHANGED <<optVars, envVars, dbVars, argVars, idx, newMigrationAppliedCount,
                 connected, logVars, ghostVars>>

\* migration = await this.db.getMigrationByName(migrationName)
ReadBefore ==
  /\ pc = "readBefore"
  /\ \/ /\ migrationAppliedCount' = AppliedCountBefore(prismaTableExists, rows[Current])
        /\ pc' = "migrateTo"
        /\ UNCHANGED error
     \/ /\ Throw("history")
        /\ UNCHANGED migrationAppliedCount
  /\ UNCHANGED <<generateVars, updateVars, resolveVars, manualVars>>
  /\ UNCHANGED <<optVars, envVars, dbVars, argVars, idx, prismaTableExists,
                 newMigrationAppliedCount, connected, logVars, ghostVars>>

\* await this.migrator.migrateTo(migrationName), inside the loop
MigrateTo ==
  /\ pc = "migrateTo"
  /\ engineLog' = Append(engineLog, Current)
  /\ \/ \E h \in AdvanceOutcomes(rows, Current, idempotentEngine) :
          /\ rows' = h
          /\ tableExists' = TRUE
          /\ histBefore' = RecordedSteps(tableExists, rows, Current)
          /\ histAfter' = RecordedSteps(TRUE, h, Current)
          /\ pc' = "readAfter"
          /\ UNCHANGED error
     \/ \E h \in AdvanceFailures(rows, Current) :
          /\ rows' = h
          /\ tableExists' = (tableExists \/ \E k \in 1..NumMigrations : h[k] # NoRow)
          /\ Throw("engine")
          /\ UNCHANGED ghostVars
  /\ UNCHANGED <<generateVars, updateVars, resolveVars, manualVars>>
  /\ UNCHANGED <<optVars, envVars, argVars, localVars, connected, scriptLog, executed>>

\* newMigration = await this.db.getMigrationByName(migrationName)
ReadAfter ==
  /\ pc = "readAfter"
  /\ \/ /\ newMigrationAppliedCount' = StepsOf(rows[Current])
        /\ pc' = "decide"
        /\ UNCHANGED error
     \/ /\ Throw("history")
        /\ UNCHANGED newMigrationAppliedCount
  /\ UNCHANGED <<generateVars, updateVars, resolveVars, manualVars>>
  /\ UNCHANGED <<optVars, envVars, dbVars, argVars, idx, prismaTableExists,
                 migrationAppliedCount, connected, logVars, ghostVars>>

\* if (migrationAppliedCount + 1 === newMigrationAppliedCount) runPostScript(...)
Decide ==
  /\ pc = "decide"
  /\ IF ShouldRunPostScript(migrationAppliedCount, newMigrationAppliedCount)
     THEN /\ scriptLog' = Append(scriptLog, Current)
          /\ executed' = [executed EXCEPT ![Current] = Min(@ + 1, 2)]
          /\ \/ pc' = "loop" /\ UNCHANGED error
             \/ Throw("script")
     ELSE /\ pc' = "loop"
          /\ UNCHANGED <<error, scriptLog, executed>>
  /\ UNCHANGED <<generateVars, updateVars, resolveVars, manualVars>>
  /\ UNCHANGED <<optVars, envVars, dbVars, argVars, localVars, connected,
                 engineLog, ghostVars>>

\* if (dataMigrations.at(-1) !== migrations.at(-1)) await migrateTo(migrations.at(-1))
FinalMigrateTo ==
  /\ pc = "final"
  /\ IF FinalCallNeeded(dataMigrations, migrations)
     THEN /\ engineLog' = Append(engineLog, AtLast(migrations))
          /\ \/ \E h \in AdvanceOutcomes(rows, AtLast(migrations), idempotentEngine) :
                  /\ rows' = h
                  /\ tableExists' = TRUE
                  /\ pc' = "disconnect"
                  /\ UNCHANGED error
             \/ \E h \in AdvanceFailures(rows, AtLast(migrations)) :
                  /\ rows' = h
                  /\ tableExists' = (tableExists \/ \E k \in 1..NumMigrations : h[k] # NoRow)
                  /\ Throw("engine")
     ELSE /\ pc' = "disconnect"
          /\ UNCHANGED <<error, dbVars, engineLog>>
  /\ UNCHANGED <<generateVars, updateVars, resolveVars, manualVars>>
  /\ UNCHANGED <<optVars, envVars, argVars, localVars, connected, scriptLog,
                 executed, ghostVars>>

\* await this.db.disconnect()
Disconnect ==
  /\ pc = "disconnect"
  /\ \/ connected' = FALSE /\ pc' = "done" /\ UNCHANGED error
     \/ Throw("disconnect") /\ UNCHANGED connected
  /\ UNCHANGED <<generateVars, updateVars, resolveVars, manualVars>>
  /\ UNCHANGED <<optVars, envVars, dbVars, argVars, localVars, logVars, ghostVars>>

\* The operator invokes the command again: a new process against the same
\* database and the same migrations directory.
NewRun ==
  /\ pc \in {"done", "failed"}
  /\ pc' = "idle"
  /\ error' = "none"
  /\ optTo' = OptAbsent
  /\ optUpto' = OptAbsent
  /\ targetMigration' = Undefined
  /\ includeTargetMigration' = FALSE
  /\ migrations' = <<>>
  /\ dataMigrations' = <<>>
  /\ idx' = 0
  /\ prismaTableExists' = FALSE
  /\ migrationAppliedCount' = 0
  /\ newMigrationAppliedCount' = 0
  /\ connected' = FALSE
  /\ engineLog' = <<>>
  /\ scriptLog' = <<>>
  /\ histBefore' = 0
  /\ histAfter' = 0
  /\ UNCHANGED <<generateVars, updateVars, resolveVars, manualVars>>
  /\ UNCHANGED <<envVars, dbVars, executed>>

\* No migrate run has started.
RunIdle ==
  /\ pc = "idle"
  /\ error = "none"
  /\ optTo = OptAbsent
  /\ optUpto = OptAbsent
  /\ targetMigration = Undefined
  /\ includeTargetMigration = FALSE
  /\ migrations = <<>>
  /\ dataMigrations = <<>>
  /\ idx = 0
  /\ prismaTableExists = FALSE
  /\ migrationAppliedCount = 0
  /\ newMigrationAppliedCount = 0
  /\ connected = FALSE
  /\ engineLog = <<>>
  /\ scriptLog = <<>>
  /\ executed = [m \in 1..NumMigrations |-> 0]
  /\ histBefore = 0
  /\ histAfter = 0

InitRun(idem) ==
  /\ RunIdle
  /\ withPostScript \in SUBSET (1..NumMigrations)
  /\ idempotentEngine = idem
  /\ \E h \in InitialHistories : tableExists = h.table /\ rows = h.rows

\* The migrate command is not given.
MigrateIdle ==
  /\ RunIdle
  /\ withPostScript = {}
  /\ idempotentEngine = TRUE
  /\ tableExists = FALSE
  /\ rows = NoHistory

MigrateStep ==
  \/ MigrateStart
  \/ ReadDataSource
  \/ Connect
  \/ LoopHead
  \/ CheckTable
  \/ ReadBefore
  \/ MigrateTo
  \/ ReadAfter
  \/ Decide
  \/ FinalMigrateTo
  \/ Disconnect

\* ------------------------------------------------------ CLI.generate
\* File names are sequences of characters. The directory entries of the
\* schema-bearing migrations are distinct names: "a", "a_", "a_a", ...
MigrationName(t) == [k \in 1..t |-> IF k % 2 = 0 THEN "_" ELSE "a"]

\* Math.random().toString(36).slice(2, 4): at most two characters of 0-9a-z;
\* outcome k is k - 1 characters long.
SuffixText(k) == [j \in 1..(k - 1) |-> "a"]

\* Seeded fault: the file name is built from the random suffix alone.
TempSchemaFilenameSuffixOnly(sfx, migrationName) ==
  <<".tmp-migration-schema-">> \o sfx \o <<".prisma">>

\* `.tmp-migration-schema-${suffix}_${migrationName}.prisma`
TempSchemaFilename(sfx, migrationName) ==
  <<".tmp-migration-schema-">> \o sfx \o <<"_">> \o migrationName \o <<".prisma">>

\* The temp schema file of task t, in the migrations directory.
TempSchemaPath(t) == TempSchemaFilename(SuffixText(suffix[t]), MigrationName(t))

Tasks == withSchema
Settled(t) == taskPc[t] \in {"fulfilled", "rejected"}

\* Promise.all: rejected by the first rejection, resolved by the last
\* fulfilment.
AfterReject(p) == IF p = "pending" THEN "rejected" ELSE p
AfterFulfil(p, t) ==
  IF p = "pending" /\ \A u \in Tasks \ {t} : taskPc[u] = "fulfilled"
  THEN "resolved"
  ELSE p

\* cli.ts: the command's async action awaits generate() and nothing handles
\* its rejection (program.parse, not parseAsync). A runtime that raises an
\* unhandled rejection as an uncaught exception ends the process as soon as
\* generate() rejects, whatever the other tasks were doing; one that only
\* warns lets them go on.
AliveAfterReject(p) == IF p = "pending" /\ exitOnUnhandled THEN FALSE ELSE alive

\* The task's async function throws: its promise rejects.
Reject(t, kind) ==
  /\ taskPc' = [taskPc EXCEPT ![t] = "rejected"]
  /\ taskError' = [taskError EXCEPT ![t] = kind]
  /\ genPromise' = AfterReject(genPromise)
  /\ alive' = AliveAfterReject(genPromise)

\* try { PrismaCLI.generate(...) } finally { fs.rmSync(tempSchemaPath) }
DiskAfterGenerate(files, t, ok) == files \ {TempSchemaPath(t)}

\* generate(): every map callback runs up to its first await, the readFile
\* inside createTempSchema; then Promise.all is awaited.
GenerateStart ==
  /\ genPromise = "none"
  /\ exitOnUnhandled' \in BOOLEAN
  /\ \E ws \in SUBSET (1..NumTasks) :
       /\ withSchema' = ws
       /\ taskPc' = [t \in ws |-> "readFile"]
       /\ taskError' = [t \in ws |-> "none"]
       /\ suffix' \in [ws -> 1..NumSuffixes]
       /\ genPromise' = (IF ws = {} THEN "resolved" ELSE "pending")
  /\ UNCHANGED <<alive, disk>>
  /\ UNCHANGED <<migrateVars, updateVars, resolveVars, manualVars>>

\* readFile settles; parsePrismaSchema, updateGenerator and formatAst run; mkdir
\* is issued.
ReadFileDone(t) ==
  /\ alive
  /\ taskPc[t] = "readFile"
  /\ \/ Reject(t, "read")
     \/ Reject(t, "schema")
     \/ /\ taskPc' = [taskPc EXCEPT ![t] = "mkdir"]
        /\ UNCHANGED <<taskError, genPromise, alive>>
  /\ UNCHANGED <<exitOnUnhandled, withSchema, suffix, disk>>
  /\ UNCHANGED <<migrateVars, updateVars, resolveVars, manualVars>>

\* mkdir settles; writeFile is issued.
MkdirDone(t) ==
  /\ alive
  /\ taskPc[t] = "mkdir"
  /\ \/ Reject(t, "mkdir")
     \/ /\ taskPc' = [taskPc EXCEPT ![t] = "writeFile"]
        /\ UNCHANGED <<taskError, genPromise, alive>>
  /\ UNCHANGED <<exitOnUnhandled, withSchema, suffix, disk>>
  /\ UNCHANGED <<migrateVars, updateVars, resolveVars, manualVars>>

\* The thread pool performs the write: the file is on disk before the task
\* resumes. A failing write may have created the file or not.
WriteFile(t) ==
  /\ alive
  /\ taskPc[t] = "writeFile"
  /\ \/ /\ disk' = disk \cup {TempSchemaPath(t)}
        /\ taskPc' = [taskPc EXCEPT ![t] = "written"]
     \/ /\ disk' \in {disk, disk \cup {TempSchemaPath(t)}}
        /\ taskPc' = [taskPc EXCEPT ![t] = "writeFailed"]
  /\ UNCHANGED <<exitOnUnhandled, withSchema, genPromise, alive, taskError, suffix>>
  /\ UNCHANGED <<migrateVars, updateVars, resolveVars, manualVars>>

\* The task resumes after a failed write: createTempSchema throws outside the
\* try block.
WriteFailed(t) ==
  /\ alive
  /\ taskPc[t] = "writeFailed"
  /\ Reject(t, "write")
  /\ UNCHANGED <<exitOnUnhandled, withSchema, suffix, disk>>
  /\ UNCHANGED <<migrateVars, updateVars, resolveVars, manualVars>>

\* The task resumes after the write: PrismaCLI.generate and fs.rmSync are
\* synchronous, so try/finally runs in one piece.
RunGenerator(t) ==
  /\ alive
  /\ taskPc[t] = "written"
  /\ \E ok \in BOOLEAN :
       /\ disk' = DiskAfterGenerate(disk, t, ok)
       /\ IF ok
          THEN /\ taskPc' = [taskPc EXCEPT ![t] = "fulfilled"]
               /\ genPromise' = AfterFulfil(genPromise, t)
               /\ UNCHANGED <<taskError, alive>>
          ELSE Reject(t, "generator")
  /\ UNCHANGED <<exitOnUnhandled, withSchema, suffix>>
  /\ UNCHANGED <<migrateVars, updateVars, resolveVars, manualVars>>

\* ------------------------------------------ tempMigrationSchema.ts
\* The schema AST: declarations with a kind and members; a member has a kind,
\* a name and a value, itself with a kind.
Literal(v) == [kind |-> "literal", value |-> v]
Config(n, v) == [kind |-> "config", name |-> n, value |-> v]
CommentBlock == [kind |-> "comment", name |-> "", value |-> [kind |-> "none", value |-> ""]]
EnvCall == [kind |-> "functionCall", value |-> "env"]
Declaration(k, ms) == [kind |-> k, members |-> ms]

\* The declarations the schemas are built from.
DeclarationMenu ==
  { Declaration("generator", <<Config("provider", Literal("prisma-client-js"))>>),
    Declaration("generator", <<Config("provider", Literal("prisma-client")),
                               Config("output", Literal("old"))>>),
    Declaration("generator", <<CommentBlock,
                               Config("output", Literal("old")),
                               Config("provider", Literal("prisma-client-js"))>>),
    Declaration("generator", <<Config("provider", Literal("prisma-client-js")),
                               Config("output", Literal("old")),
                               Config("output", Literal("older"))>>),
    Declaration("generator", <<Config("provider", Literal("other-generator")),
                               Config("output", Literal("other"))>>),
    Declaration("generator", <<Config("provider", EnvCall)>>),
    Declaration("datasource", <<Config("provider", Literal("postgresql")),
                                Config("url", EnvCall)>>),
    Declaration("model", <<>>) }

SeqsUpTo(S, n) == UNION {[1..k -> S] : k \in 0..n}
Schemas == SeqsUpTo(DeclarationMenu, MaxDecls)
OutputPaths == {"out/m1", "old"}

\* Seeded fault: only "prisma-client-js" is recognised.
IsClientGeneratorJsOnly(decl) ==
  /\ decl.kind = "generator"
  /\ \E k \in 1..Len(decl.members) :
       /\ decl.members[k].kind = "config"
       /\ decl.members[k].name = "provider"
       /\ decl.members[k].value.kind = "literal"
       /\ decl.members[k].value.value = "prisma-client-js"

IsClientGenerator(decl) ==
  /\ decl.kind = "generator"
  /\ \E k \in 1..Len(decl.members) :
       /\ decl.members[k].kind = "config"
       /\ decl.members[k].name = "provider"
       /\ decl.members[k].value.kind = "literal"
       /\ \/ decl.members[k].value.value = "prisma-client-js"
          \/ decl.members[k].value.value = "prisma-client"

IsOutputAttribute(attr) == attr.kind = "config" /\ attr.name = "output"

Returned(ast) == [called |-> TRUE, threw |-> FALSE, message |-> "", ast |-> ast]
Thrown(msg) == [called |-> TRUE, threw |-> TRUE, message |-> msg, ast |-> <<>>]
NotCalled == [called |-> FALSE, threw |-> FALSE, message |-> "", ast |-> <<>>]

\* generator.members.find(...): the index of the first output attribute, 0 if
\* there is none.
FirstOutputIndex(members) ==
  IF \E k \in 1..Len(members) : IsOutputAttribute(members[k])
  THEN CHOOSE k \in 1..Len(members) :
         /\ IsOutputAttribute(members[k])
         /\ \A j \in 1..(k - 1) : ~IsOutputAttribute(members[j])
  ELSE 0

\* Seeded fault: the output attribute is pushed without looking for one.
WithOutputAlwaysPushed(generator, path) ==
  [generator EXCEPT !.members = Append(@, Config("output", Literal(path)))]

\* The generator block with its output attribute set to path.
WithOutput(generator, path) ==
  LET o == FirstOutputIndex(generator.members)
  IN  IF o = 0
      THEN [generator EXCEPT !.members = Append(@, Config("output", Literal(path)))]
      ELSE [generator EXCEPT !.members[o].value = Literal(path)]

\* updateGenerator(ast, clientOutputPath) on the structured clone of ast.
UpdateGenerator(ast, path) ==
  LET astCopy == ast
      clientGenerators == {k \in 1..Len(astCopy) : IsClientGenerator(astCopy[k])}
  IN  IF Cardinality(clientGenerators) # 1
      THEN Thrown("The schema must contain exactly one generator block for prisma-client-js or prisma-client.")
      ELSE LET g == CHOOSE k \in clientGenerators : TRUE
           IN  Returned([astCopy EXCEPT ![g] = WithOutput(astCopy[g], path)])

\* The object the caller holds, and the one the rewrite writes to.
CallerObject == "ast"

\* Seeded fault: const astCopy = ast.
StructuredCloneAliased(obj) == obj

\* structuredClone(ast): a new object.
StructuredClone(obj) == "astCopy"

\* The caller's AST after the call: the members are written (after the count
\* check has passed) in the object astCopy refers to.
CallerAstAfter(ast, result) ==
  IF ~result.threw /\ StructuredClone(CallerObject) = CallerObject
  THEN result.ast
  ELSE ast

UpdateIdle ==
  /\ callerAst = <<>>
  /\ clientOutputPath = ""
  /\ ugResult = NotCalled
  /\ againSource = "none"
  /\ ugAgain = NotCalled

CallUpdateGenerator ==
  /\ ~ugResult.called
  /\ ugResult' = UpdateGenerator(callerAst, clientOutputPath)
  /\ callerAst' = CallerAstAfter(callerAst, ugResult')
  /\ UNCHANGED <<clientOutputPath, againSource, ugAgain>>
  /\ UNCHANGED <<migrateVars, generateVars, resolveVars, manualVars>>

\* A second generation with the same output path: createTempSchema parses
\* and rewrites the same source again, or the schema the first one wrote.
CallUpdateGeneratorAgain ==
  /\ ugResult.called
  /\ ~ugResult.threw
  /\ ~ugAgain.called
  /\ \/ /\ againSource' = "source"
        /\ ugAgain' = UpdateGenerator(callerAst, clientOutputPath)
     \/ /\ againSource' = "rewritten"
        /\ ugAgain' = UpdateGenerator(ugResult.ast, clientOutputPath)
  /\ UNCHANGED <<callerAst, clientOutputPath, ugResult>>
  /\ UNCHANGED <<migrateVars, generateVars, resolveVars, manualVars>>

\* ------------------------------------------ readDataSourceConfig
\* A schema argument (SchemaArgument): a literal, a function call with its
\* argument list, or an array. AbsentMember stands for a member that
\* members.find(...) did not find.
StringLiteral(v) == [kind |-> "literal", type |-> "string", value |-> v, args |-> <<>>]
NumberLiteral == [kind |-> "literal", type |-> "number", value |-> "5432", args |-> <<>>]
FunctionCall(path, args) == [kind |-> "functionCall", type |-> "", value |-> path, args |-> args]
ArrayArgument == [kind |-> "array", type |-> "", value |-> "", args |-> <<>>]
AbsentMember == [kind |-> "absent", type |-> "", value |-> "", args |-> <<>>]

\* The strings a literal, an environment variable or the config module holds.
Strings == {"", "postgresql", "oracle", "postgresql://x", "not a url"}
EnvNames == {"DATABASE_URL", "DB_PROVIDER"}

SchemaArguments ==
  {StringLiteral(v) : v \in Strings} \cup
  {FunctionCall("env", <<StringLiteral(n)>>) : n \in EnvNames} \cup
  { NumberLiteral,
    ArrayArgument,
    FunctionCall("env", <<>>),
    FunctionCall("env", <<StringLiteral("DATABASE_URL"), StringLiteral("DB_PROVIDER")>>),
    FunctionCall("env", <<NumberLiteral>>),
    FunctionCall("dbgenerated", <<StringLiteral("DATABASE_URL")>>) }

\* process.env[name]: undefined, or a string.
EnvUnset == [set |-> FALSE, value |-> ""]
EnvSet(v) == [set |-> TRUE, value |-> v]
EnvValues == {EnvUnset} \cup {EnvSet(v) : v \in Strings}

\* prisma.config.ts: not there, failing on import, exporting something of the
\* wrong shape, or exporting an object with a datasource.url string.
ConfigFile(file, shape, url) == [file |-> file, shape |-> shape, url |-> url]
PrismaConfigs ==
  { ConfigFile("missing", "none", ""),
    ConfigFile("importFails", "none", ""),
    ConfigFile("ok", "noDatasource", ""),
    ConfigFile("ok", "urlNotString", "") } \cup
  {ConfigFile("ok", "valid", u) : u \in Strings}

\* new URL(s) does not throw.
IsValidUrl(s) == s \in {"postgresql://x"}

\* isSupportedDatasourceProvider.ts, which readDataSourceConfig only imports:
\* membership in the fixed supported-provider set of the specification.
SUPPORTED_DATASOURCE_PROVIDERS == {"postgresql", "mysql"}
IsSupportedDatasourceProvider(provider) == provider \in SUPPORTED_DATASOURCE_PROVIDERS

\* The value a read produced, or the message of the error it threw.
Resolved(v) == [ok |-> TRUE, value |-> v, message |-> ""]
Failed(msg) == [ok |-> FALSE, value |-> "", message |-> msg]

\* readStringArgument of the schema parser: a string literal, or an error.
ReadStringArgument(arg) ==
  IF arg.kind = "literal" /\ arg.type = "string"
  THEN Resolved(arg.value)
  ELSE Failed("String literal expected")

\* !envValue: undefined and the empty string are both falsy.
IsFalsy(envValue) == ~envValue.set \/ envValue.value = ""

\* Seeded fault: the value of the variable is returned unchecked.
ReadArgumentWithEnvUnchecked(arg, env) ==
  IF arg.kind = "literal"
  THEN IF arg.type # "string"
       THEN Failed("Expected a string literal for provider or url.")
       ELSE Resolved(arg.value)
  ELSE IF arg.kind = "functionCall" /\ arg.value = "env"
  THEN IF Len(arg.args) # 1
       THEN Failed("env() function must have exactly one argument.")
       ELSE LET envName == ReadStringArgument(arg.args[1])
            IN  IF ~envName.ok
                THEN envName
                ELSE Resolved(env[envName.value].value)
  ELSE Failed("Only string literals and env() function calls are supported for provider and url.")

ReadArgumentWithEnv(arg, env) ==
  IF arg.kind = "literal"
  THEN IF arg.type # "string"
       THEN Failed("Expected a string literal for provider or url.")
       ELSE Resolved(arg.value)
  ELSE IF arg.kind = "functionCall" /\ arg.value = "env"
  THEN IF Len(arg.args) # 1
       THEN Failed("env() function must have exactly one argument.")
       ELSE LET envName == ReadStringArgument(arg.args[1])
            IN  IF ~envName.ok
                THEN envName
                ELSE IF IsFalsy(env[envName.value])
                     THEN Failed("Environment variable is not set.")
                     ELSE Resolved(env[envName.value].value)
  ELSE Failed("Only string literals and env() function calls are supported for provider and url.")

\* readDatabaseUrlFromPrismaConfig(): the datasource.url of prisma.config.ts.
ReadDatabaseUrlFromPrismaConfig(cfg) ==
  IF cfg.file = "missing"
  THEN Failed("prisma.config.ts not found")
  ELSE IF cfg.file = "importFails"
  THEN Failed("failed to import prisma.config.ts")
  ELSE IF cfg.shape # "valid"
  THEN Failed("invalid prisma.config.ts structure: expected defineConfig with datasource.url property")
  ELSE IF cfg.url = ""
  THEN Failed("datasource.url cannot be empty in prisma.config.ts")
  ELSE IF ~IsValidUrl(cfg.url)
  THEN Failed("invalid datasource.url format in prisma.config.ts")
  ELSE Resolved(cfg.url)

\* What a call of readDataSourceConfig gave: a config, or an error with its
\* message and, when the message lists providers, the providers it lists.
DsReturned(provider, url) ==
  [called |-> TRUE, threw |-> FALSE, message |-> "", listed |-> {},
   provider |-> provider, url |-> url]
DsThrown(msg, listed) ==
  [called |-> TRUE, threw |-> TRUE, message |-> msg, listed |-> listed,
   provider |-> "", url |-> ""]
DsNotCalled ==
  [called |-> FALSE, threw |-> FALSE, message |-> "", listed |-> {},
   provider |-> "", url |-> ""]

\* Seeded fault: the provider is returned without the check.
CheckProviderSkipped(provider, url) == DsReturned(provider, url)

\* if (!isSupportedDatasourceProvider(provider)) throw ...; return { provider, url }
CheckProvider(provider, url) ==
  IF ~IsSupportedDatasourceProvider(provider)
  THEN DsThrown("Unsupported datasource provider", SUPPORTED_DATASOURCE_PROVIDERS)
  ELSE DsReturned(provider, url)

\* readDataSourceConfig on a schema whose datasource declaration (when there
\* is one) has the members providerMember and urlMember.
ReadDataSourceConfig(hasBlock, providerMember, urlMember, env, cfg) ==
  IF ~hasBlock
  THEN DsThrown("TypeError: Cannot read properties of undefined", {})
  ELSE IF providerMember = AbsentMember
  THEN DsThrown("Datasource declaration must include a 'provider' configuration.", {})
  ELSE LET provider == ReadArgumentWithEnv(providerMember, env)
       IN  IF ~provider.ok
           THEN DsThrown(provider.message, {})
           ELSE LET url == IF urlMember # AbsentMember
                           THEN ReadArgumentWithEnv(urlMember, env)
                           ELSE ReadDatabaseUrlFromPrismaConfig(cfg)
                IN  IF ~url.ok
                    THEN DsThrown(url.message, {})
                    ELSE CheckProvider(provider.value, url.value)

ResolveIdle ==
  /\ hasDatasource = FALSE
  /\ schemaProvider = AbsentMember
  /\ schemaUrl = AbsentMember
  /\ processEnv = [n \in EnvNames |-> EnvUnset]
  /\ prismaConfig = ConfigFile("missing", "none", "")
  /\ dsResult = DsNotCalled

CallReadDataSourceConfig ==
  /\ ~dsResult.called
  /\ dsResult' = ReadDataSourceConfig(hasDatasource, schemaProvider, schemaUrl,
                                      processEnv, prismaConfig)
  /\ UNCHANGED <<hasDatasource, schemaProvider, schemaUrl, processEnv, prismaConfig>>
  /\ UNCHANGED <<migrateVars, generateVars, updateVars, manualVars>>

\* ------------------------------------------------ CLI.runPostScript
\* path.resolve(this.config.migrationsDir, migrationName)
GetMigrationPath(migrationName) == <<"migrationsDir", migrationName>>

\* Seeded fault: the post-script check is left out.
ManualOutcomeUnchecked(option, ps) ==
  IF ~option.given
  THEN "options"
  ELSE IF ~IsValidMigrationName(option.name)
  THEN "InvalidMigrationName"
  ELSE "none"

\* The run:postscript action and CLI.runPostScript up to the runner's call:
\* the error thrown, or "none".
ManualOutcome(option, ps) ==
  IF ~option.given
  THEN "options"
  ELSE IF ~IsValidMigrationName(option.name)
  THEN "InvalidMigrationName"
  ELSE IF option.name \notin ps
  THEN "NoPostScript"
  ELSE "none"

ManualOptions == {OptAbsent} \cup {OptName(n) : n \in Names}

ManualIdle ==
  /\ manualPc = "idle"
  /\ manualOption = OptAbsent
  /\ manualError = "none"
  /\ runnerCalls = <<>>

\* prisma-dm run:postscript [-m name]
RunPostScriptCommand ==
  /\ manualPc = "idle"
  /\ \E option \in ManualOptions :
       /\ manualOption' = option
       /\ IF ManualOutcome(option, withPostScript) # "none"
          THEN /\ manualError' = ManualOutcome(option, withPostScript)
               /\ manualPc' = "failed"
               /\ UNCHANGED runnerCalls
          ELSE /\ runnerCalls' = Append(runnerCalls, GetMigrationPath(option.name))
               /\ \/ manualPc' = "done" /\ UNCHANGED manualError
                  \/ manualPc' = "failed" /\ manualError' = "script"
  /\ UNCHANGED <<migrateVars, generateVars, updateVars, resolveVars>>

\* ------------------------------------------------------ specifications
\* The generate command has not been given.
GenerateIdle ==
  /\ exitOnUnhandled = TRUE
  /\ withSchema = {}
  /\ genPromise = "none"
  /\ alive = TRUE
  /\ taskPc = <<>>
  /\ taskError = <<>>
  /\ suffix = <<>>
  /\ disk = {}

\* One migrate run, against an engine and a history that may be inconsistent.
Init == InitRun(FALSE) /\ GenerateIdle /\ UpdateIdle /\ ResolveIdle /\ ManualIdle
Next == MigrateStep
Spec == Init /\ [][Next]_vars

\* Any number of migrate runs against an idempotent engine.
InitRerun == InitRun(TRUE) /\ GenerateIdle /\ UpdateIdle /\ ResolveIdle /\ ManualIdle
NextRerun == MigrateStep \/ NewRun
SpecRerun == InitRerun /\ [][NextRerun]_vars

\* One generate command.
InitGenerate == MigrateIdle /\ GenerateIdle /\ UpdateIdle /\ ResolveIdle /\ ManualIdle
NextGenerate ==
  \/ GenerateStart
  \/ \E t \in Tasks : ReadFileDone(t)
  \/ \E t \in Tasks : MkdirDone(t)
  \/ \E t \in Tasks : WriteFile(t)
  \/ \E t \in Tasks : WriteFailed(t)
  \/ \E t \in Tasks : RunGenerator(t)
SpecGenerate == InitGenerate /\ [][NextGenerate]_vars

\* One call of updateGenerator on a schema of the menu.
InitUpdate ==
  /\ MigrateIdle
  /\ GenerateIdle
  /\ callerAst \in Schemas
  /\ clientOutputPath \in OutputPaths
  /\ ugResult = NotCalled
  /\ againSource = "none"
  /\ ugAgain = NotCalled
  /\ ResolveIdle
  /\ ManualIdle
NextUpdate == CallUpdateGenerator \/ CallUpdateGeneratorAgain
SpecUpdate == InitUpdate /\ [][NextUpdate]_vars

\* One call of readDataSourceConfig: a schema with or without a datasource
\* declaration, an environment and a config module.
InitResolve ==
  /\ MigrateIdle
  /\ GenerateIdle
  /\ UpdateIdle
  /\ ManualIdle
  /\ hasDatasource \in BOOLEAN
  /\ schemaProvider \in SchemaArguments \cup {AbsentMember}
  /\ schemaUrl \in SchemaArguments \cup {AbsentMember}
  /\ ~hasDatasource => (schemaProvider = AbsentMember /\ schemaUrl = AbsentMember)
  /\ processEnv \in [EnvNames -> EnvValues]
  /\ prismaConfig \in PrismaConfigs
  /\ dsResult = DsNotCalled
NextResolve == CallReadDataSourceConfig
SpecResolve == InitResolve /\ [][NextResolve]_vars

\* One run:postscript command, whatever the history holds.
InitManual == InitRun(FALSE) /\ GenerateIdle /\ UpdateIdle /\ ResolveIdle /\ ManualIdle
NextManual == RunPostScriptCommand
SpecManual == InitManual /\ [][NextManual]_vars

\* ------------------------------------------------ properties of migrate
InList(m) == m \in Range(rawMigrations)
Prefix(n) == SubSeq(rawMigrations, 1, n)
\* migrate has computed its slice
Started == pc # "idle" /\ error \notin {"options", "InvalidMigrationName"}
\* the run has just decided on the post-script of Current and goes on
Decided == pc = "loop" /\ idx > 0
PostScriptRan(m) == m \in Range(scriptLog)

\* C1: the post-script of a post-script-bearing migration of the slice is
\* executed in this run exactly when the history's count for it grew by one
\* over the engine call (zero before when the table or the row is missing).
C1_PostScriptIffDeltaOne ==
  /\ Decided => (PostScriptRan(Current) <=> histAfter - histBefore = 1)
  /\ error = "script" => (PostScriptRan(Current) /\ histAfter - histBefore = 1)
  /\ Range(scriptLog) \subseteq Range(dataMigrations)

C1_Witness ==
  /\ Decided
  /\ histBefore = 1
  /\ histAfter = 2
  /\ PostScriptRan(Current)

\* C2: with a target of the list the slice is the prefix ending just before
\* it (--to, includeTarget false) or at it (--upto, includeTarget true);
\* with no target, or "latest", it is the whole list.
C2_SliceSelection ==
  Started =>
    /\ (InList(targetMigration) /\ ~includeTargetMigration)
         => migrations = Prefix(targetMigration - 1)
    /\ (InList(targetMigration) /\ includeTargetMigration)
         => migrations = Prefix(targetMigration)
    /\ targetMigration = Undefined => migrations = rawMigrations
    /\ \A k \in Range(rawMigrations) :
         /\ optTo = OptName(k) => migrations = Prefix(k - 1)
         /\ optUpto = OptName(k) => migrations = Prefix(k)
    /\ (optTo \in {OptAbsent, OptLatest} /\ optUpto \in {OptAbsent, OptLatest})
         => migrations = rawMigrations

C2_Witness ==
  /\ pc = "done"
  /\ optTo = OptName(2)
  /\ migrations = <<1>>

\* C3: once the loop has completed, the engine was called for every
\* post-script-bearing migration of the slice, in order, and then once more
\* for the slice's last migration exactly when the slice is not empty and its
\* last migration bears no post-script.
C3_FinalCatchUp ==
  pc \in {"disconnect", "done"} =>
    LET data == SelectSeq(migrations, LAMBDA m : m \in withPostScript)
        trailing == /\ Len(migrations) > 0
                    /\ migrations[Len(migrations)] \notin withPostScript
    IN  engineLog = (IF trailing
                     THEN Append(data, migrations[Len(migrations)])
                     ELSE data)

C3_Witness ==
  /\ pc = "done"
  /\ Len(dataMigrations) > 0
  /\ Len(engineLog) = Len(dataMigrations) + 1
  /\ engineLog[Len(engineLog)] = migrations[Len(migrations)]

\* C4: a run that connected has disconnected when it ends, however it ends.
C4_ConnectionReleased == pc \in {"done", "failed"} => ~connected

\* C5: a count that shrank over the engine call aborts the run.
C5_NegativeDeltaAborts ==
  (histAfter < histBefore /\ pc \notin {"readAfter", "decide"}) => pc = "failed"

\* C6: after a failure the run calls the engine no more, runs no post-script
\* and leaves the history as the failed step left it; no step removes a
\* migration from the history.
C6_FailureAborts ==
  [][/\ error # "none" => UNCHANGED <<engineLog, scriptLog, tableExists, rows>>
     /\ \A m \in 1..NumMigrations : rows[m] # NoRow => rows'[m] # NoRow]_vars

C6_Witness ==
  /\ pc = "failed"
  /\ error = "script"
  /\ idx < Len(dataMigrations)
  /\ rows[Current] # NoRow

\* C7: against an idempotent engine, over any number of runs, no post-script
\* is executed twice, and a run that finds the migration already applied
\* does not execute its post-script.
C7_AtMostOnce ==
  /\ \A m \in 1..NumMigrations : executed[m] <= 1
  /\ (Decided /\ histBefore >= 1) => ~PostScriptRan(Current)

C7_Witness ==
  /\ Decided
  /\ executed[Current] = 1
  /\ ~PostScriptRan(Current)
  /\ histBefore = 1
  /\ histAfter = 1

\* ---------------------------------------------- properties of generate
\* the process has ended, or nothing is left to run
GenerateOver == ~alive \/ (genPromise # "none" /\ \A t \in Tasks : Settled(t))

\* C8: once generate has finished, with success or with a failure of the
\* schema rewrite or of the external generator, no temp schema file of the
\* run is on disk.
C8_NoTempFileAfterGenerate ==
  (/\ genPromise \in {"resolved", "rejected"}
   /\ \A t \in Tasks : taskError[t] \in {"none", "schema", "generator"})
    => disk = {}

\* C9: when the command is over after one task failed, no other task has
\* left its temp schema file behind.
C9_OtherTasksCleanUp ==
  GenerateOver =>
    \A t \in Tasks : taskError[t] = "none" => TempSchemaPath(t) \notin disk

\* C17: the tasks of one generate run use pairwise distinct temp schema
\* paths whatever the random suffixes are, so the file a task wrote is still
\* there when the task goes on to run the generator on it.
C17_DistinctTempPaths ==
  genPromise # "none" =>
    /\ \A t \in Tasks : \A u \in Tasks \ {t} : TempSchemaPath(t) # TempSchemaPath(u)
    /\ \A t \in Tasks : taskPc[t] = "written" => TempSchemaPath(t) \in disk

C17_Witness ==
  /\ Cardinality(Tasks) = 2
  /\ \A t \in Tasks : \A u \in Tasks : suffix[t] = suffix[u]
  /\ \A t \in Tasks : taskPc[t] = "written"
  /\ Cardinality(disk) = 2

\* ------------------------------------------- properties of updateGenerator
ClientProviders == {"prisma-client-js", "prisma-client"}
IsClientBlock(d) ==
  /\ d.kind = "generator"
  /\ \E k \in 1..Len(d.members) :
       d.members[k] \in {Config("provider", Literal(v)) : v \in ClientProviders}
ClientBlocks(ast) == {k \in 1..Len(ast) : IsClientBlock(ast[k])}
HasOutput(d) == \E k \in 1..Len(d.members) : IsOutputAttribute(d.members[k])

\* C10: updateGenerator fails unless the schema holds exactly one client
\* generator block; with exactly one it returns a schema where that block has
\* an output field holding the supplied path: the first existing output field
\* with its value replaced, or a new last field when there was none.
C10_ExactlyOneClientGenerator ==
  ugResult.called =>
    IF Cardinality(ClientBlocks(callerAst)) # 1
    THEN ugResult.threw
    ELSE LET g == CHOOSE k \in ClientBlocks(callerAst) : TRUE
             before == callerAst[g].members
             after == ugResult.ast[g].members
             want == Config("output", Literal(clientOutputPath))
         IN  /\ ~ugResult.threw
             /\ Len(ugResult.ast) = Len(callerAst)
             /\ ugResult.ast[g].kind = "generator"
             /\ \E k \in 1..Len(after) : after[k] = want
             /\ HasOutput(callerAst[g]) =>
                  /\ Len(after) = Len(before)
                  /\ \E k \in 1..Len(before) :
                       /\ IsOutputAttribute(before[k])
                       /\ after = [before EXCEPT ![k] = want]
             /\ ~HasOutput(callerAst[g]) => after = Append(before, want)

C10_Witness ==
  /\ ugResult.called
  /\ ~ugResult.threw
  /\ Len(callerAst) = 2
  /\ \E g \in ClientBlocks(callerAst) :
       /\ ~HasOutput(callerAst[g])
       /\ HasOutput(ugResult.ast[g])

\* ------------------------------------ properties of readDataSourceConfig
\* the schema has a datasource declaration with a provider member
HasProviderMember == hasDatasource /\ schemaProvider # AbsentMember

IsEnvOfOneName(arg) ==
  /\ arg.kind = "functionCall"
  /\ arg.value = "env"
  /\ Len(arg.args) = 1
  /\ arg.args[1].kind = "literal"
  /\ arg.args[1].type = "string"

\* The value the contract gives an argument: a string literal's own value,
\* the value of the variable env(NAME) names, a failure otherwise. emptyFails
\* says whether a variable holding the empty string counts as unset.
ContractValue(arg, emptyFails) ==
  IF arg.kind = "literal" /\ arg.type = "string"
  THEN Resolved(arg.value)
  ELSE IF /\ IsEnvOfOneName(arg)
          /\ processEnv[arg.args[1].value].set
          /\ ~(emptyFails /\ processEnv[arg.args[1].value].value = "")
  THEN Resolved(processEnv[arg.args[1].value].value)
  ELSE Failed("")

\* The url the contract gives: the schema's url member when there is one, the
\* config module's datasource.url otherwise.
ContractUrl(emptyFails) ==
  IF schemaUrl # AbsentMember
  THEN ContractValue(schemaUrl, emptyFails)
  ELSE IF /\ prismaConfig.file = "ok"
          /\ prismaConfig.shape = "valid"
          /\ prismaConfig.url # ""
          /\ IsValidUrl(prismaConfig.url)
  THEN Resolved(prismaConfig.url)
  ELSE Failed("")

ResolutionAgrees(emptyFails) ==
  (dsResult.called /\ HasProviderMember) =>
    LET p == ContractValue(schemaProvider, emptyFails)
        u == ContractUrl(emptyFails)
    IN  /\ ~dsResult.threw =>
             /\ p.ok
             /\ u.ok
             /\ dsResult.provider = p.value
             /\ dsResult.url = u.value
        /\ (p.ok /\ u.ok /\ p.value \in SUPPORTED_DATASOURCE_PROVIDERS) => ~dsResult.threw
        /\ (~p.ok \/ ~u.ok) => dsResult.threw

\* C11 as stated: provider and url resolve as the contract says, a variable
\* failing only when it is unset: a string literal gives itself, env(NAME)
\* the value of NAME, any other form fails, and an absent url member gives
\* the config module's datasource.url.
C11_ValueResolution == ResolutionAgrees(FALSE)

\* C11 amended: as stated, but env(NAME) fails when NAME is unset or holds
\* the empty string.
C11_ValueResolutionEmptyIsUnset == ResolutionAgrees(TRUE)

C11_Witness ==
  /\ dsResult.called
  /\ ~dsResult.threw
  /\ schemaProvider = StringLiteral("postgresql")
  /\ schemaUrl = FunctionCall("env", <<StringLiteral("DATABASE_URL")>>)
  /\ processEnv["DATABASE_URL"] = EnvSet("postgresql://x")
  /\ dsResult.url = "postgresql://x"

\* C12: the url of every returned config is non-empty and a valid URL.
C12_UrlNonEmptyValid ==
  (dsResult.called /\ ~dsResult.threw) =>
    (dsResult.url # "" /\ IsValidUrl(dsResult.url))

\* the provider member resolves, to a value outside the supported set
ProviderUnsupported ==
  /\ HasProviderMember
  /\ ReadArgumentWithEnv(schemaProvider, processEnv).ok
  /\ ReadArgumentWithEnv(schemaProvider, processEnv).value \notin SUPPORTED_DATASOURCE_PROVIDERS

ListsSupportedProviders == dsResult.listed = SUPPORTED_DATASOURCE_PROVIDERS

\* C13 as stated: no returned config has an unsupported provider, and
\* whenever the provider resolves to an unsupported value the call fails
\* with a message listing the supported providers.
C13_UnsupportedProviderListed ==
  dsResult.called =>
    /\ ~dsResult.threw => dsResult.provider \in SUPPORTED_DATASOURCE_PROVIDERS
    /\ ProviderUnsupported => (dsResult.threw /\ ListsSupportedProviders)

\* C13 amended: ... the call fails, and when the url resolves as well the
\* failure's message lists the supported providers (a failing url is
\* reported first).
C13_UnsupportedProviderFails ==
  dsResult.called =>
    /\ ~dsResult.threw => dsResult.provider \in SUPPORTED_DATASOURCE_PROVIDERS
    /\ ProviderUnsupported => dsResult.threw
    /\ (ProviderUnsupported /\ ContractUrl(TRUE).ok) => ListsSupportedProviders
    /\ ListsSupportedProviders => ProviderUnsupported

C13_Witness ==
  /\ dsResult.called
  /\ dsResult.threw
  /\ schemaProvider = StringLiteral("oracle")
  /\ schemaUrl = StringLiteral("postgresql://x")
  /\ ListsSupportedProviders

\* --------------------------------------- properties of run:postscript
ManualTarget == manualOption.name
\* the command names a well-formed migration that bears a post-script
BearsPostScript ==
  /\ manualOption.given
  /\ IsValidMigrationName(ManualTarget)
  /\ ManualTarget \in withPostScript

\* C14: run:postscript for a migration without a post-script fails and the
\* runner is not invoked; for a migration with one the runner is invoked
\* exactly once, with the migration's directory path, whatever the history
\* holds for it: migrate's engine, samples and connection are not involved.
C14_ManualRunPostScript ==
  manualPc # "idle" =>
    /\ IF BearsPostScript
       THEN /\ runnerCalls = <<GetMigrationPath(ManualTarget)>>
            /\ manualError \in {"none", "script"}
       ELSE /\ manualPc = "failed"
            /\ manualError \notin {"none", "script"}
            /\ runnerCalls = <<>>
    /\ engineLog = <<>>
    /\ scriptLog = <<>>
    /\ ~connected
    /\ pc = "idle"

C14_Witness ==
  /\ manualPc = "done"
  /\ BearsPostScript
  /\ tableExists
  /\ rows[ManualTarget] = 2
  /\ runnerCalls = <<GetMigrationPath(ManualTarget)>>

\* C15: within a run the engine is called for strictly later and later
\* migrations of the list, one call at a time; the post-script of M runs
\* only when the last engine call was the one for M, has returned and the
\* sample after it has been read, and every later engine call is for a
\* migration after every post-script run so far.
C15_SequentialOrder ==
  [][/\ engineLog' # engineLog =>
          /\ pc \in {"migrateTo", "final"}
          /\ \E m \in Range(rawMigrations) :
               /\ engineLog' = Append(engineLog, m)
               /\ \A k \in 1..Len(engineLog) : engineLog[k] < m
               /\ \A k \in 1..Len(scriptLog) : scriptLog[k] < m
     /\ scriptLog' # scriptLog =>
          /\ pc = "decide"
          /\ Len(engineLog) > 0
          /\ scriptLog' = Append(scriptLog, AtLast(engineLog))
          /\ newMigrationAppliedCount = histAfter
          /\ UNCHANGED engineLog]_vars

C15_Witness ==
  /\ pc = "done"
  /\ engineLog = <<1, 2, 3>>
  /\ scriptLog = <<1, 2>>

\* C16: with a target, every name passed to the engine is a migration of the
\* list at or before the target (before it when includeTarget is false); a
\* well-formed target that is not in the list leads to no engine call and no
\* post-script.
C16_TargetBoundsEngineCalls ==
  (Started /\ targetMigration # Undefined) =>
    /\ \A k \in 1..Len(engineLog) :
         /\ InList(engineLog[k])
         /\ InList(targetMigration) =>
              IF includeTargetMigration
              THEN engineLog[k] <= targetMigration
              ELSE engineLog[k] < targetMigration
    /\ ~InList(targetMigration) => (engineLog = <<>> /\ scriptLog = <<>>)

\* C18: the schema updateGenerator returns has the output of the client
\* generator set to the path and holds no generator declaration other than
\* the client generator.
C18_OtherGeneratorsRemoved ==
  (ugResult.called /\ ~ugResult.threw) =>
    /\ \E g \in ClientBlocks(ugResult.ast) :
         \E k \in 1..Len(ugResult.ast[g].members) :
           ugResult.ast[g].members[k] = Config("output", Literal(clientOutputPath))
    /\ \A k \in 1..Len(ugResult.ast) :
         ugResult.ast[k].kind = "generator" => IsClientBlock(ugResult.ast[k])

\* the returned AST is the caller's apart from the output field of the client
\* generator block g
SameApartFromOutput(before, after) ==
  /\ Len(after) = Len(before)
  /\ \A k \in 1..Len(before) :
       \/ after[k] = before[k]
       \/ /\ IsClientBlock(before[k])
          /\ after[k].kind = before[k].kind
          /\ \/ /\ Len(after[k].members) = Len(before[k].members)
                /\ \E o \in 1..Len(before[k].members) :
                     /\ IsOutputAttribute(before[k].members[o])
                     /\ IsOutputAttribute(after[k].members[o])
                     /\ \A j \in 1..Len(before[k].members) :
                          j # o => after[k].members[j] = before[k].members[j]
             \/ /\ Len(after[k].members) = Len(before[k].members) + 1
                /\ IsOutputAttribute(after[k].members[Len(after[k].members)])
                /\ SubSeq(after[k].members, 1, Len(before[k].members)) = before[k].members

C20_RewriteIdempotent ==
  ugAgain.called => ugAgain = ugResult

C20_Witness ==
  /\ ugAgain.called
  /\ againSource = "rewritten"
  /\ ~ugAgain.threw
  /\ ugResult.ast # callerAst
  /\ ugAgain.ast = ugResult.ast

=============================================================================
